---- MODULE Spec2Model ----
(***************************************************************************)
(* SECP256K1Key (client-py/casperlabs_client/key_holders/secp256k1.py):    *)
(* a key holder with four optional slots (_private_key_pem, _private_key,  *)
(* _public_key_pem, _public_key), lazily derived by four property          *)
(* accessors, and a sign operation.  The ecdsa library is modelled by what *)
(* its calls accept, reject and return.                                    *)
(***************************************************************************)
EXTENDS Integers, FiniteSets, Sequences, TLC

VARIABLES self, given, hist, last, made, stack, writes

vars == <<self, given, hist, last, made, stack, writes>>

(***************************************************************************)
(* Bounds of the model.                                                    *)
(***************************************************************************)
\* private scalars 1..MaxScalar are supplied at construction
MaxScalar == 2
\* the random nonce ecdsa draws for one signature is one of 1..MaxNonce
MaxNonce == 2
\* callers sharing one object
MaxThreads == 2

(***************************************************************************)
(* Byte strings.  Python's None; raw byte strings, known by their length   *)
(* and content; PEM blocks, known by their label, curve and content.       *)
(***************************************************************************)
None == [t |-> "None"]

Bytes(len, v) == [t |-> "bytes", len |-> len, v |-> v]

Pem(label, curve, v) == [t |-> "pem", label |-> label, curve |-> curve, v |-> v]

\* b""
Empty == Bytes(0, 0)

\* bytes that are neither a PEM block nor a raw key of any curve
Garbage == Bytes(5, 0)

\* Python truthiness of an Optional[bytes]: None and b"" are falsy
Truthy(x) == x # None /\ x # Empty

(***************************************************************************)
(* The ecdsa library.  Two curves: the class's CURVE and a foreign one     *)
(* with a different key length.  The group is a toy one: scalar k has the  *)
(* public point PointTable[k].                                             *)
(***************************************************************************)
CURVE == "SECP256k1"

ForeignCurve == "NIST192p"

BaseLen(curve) == IF curve = CURVE THEN 32 ELSE 24

PointTable == <<3, 2, 6, 4, 5>>

\* scalars d with 1 <= d < order are valid
ValidScalar(d) == d \in 1..Len(PointTable)

ValidPoint(q) == \E d \in 1..Len(PointTable) : PointTable[d] = q

Ok(key) == [ok |-> TRUE, key |-> key]

Fail == [ok |-> FALSE, key |-> None]

\* ecdsa.SigningKey.from_string(string, curve=curve)
SigningKey_from_string(string, curve) ==
    IF string.t = "bytes" /\ string.len = BaseLen(curve) /\ ValidScalar(string.v)
    THEN Ok([curve |-> curve, d |-> string.v])
    ELSE Fail

\* ecdsa.SigningKey.from_pem(string): the curve is the one the PEM names
SigningKey_from_pem(string) ==
    IF string.t = "pem" /\ string.label = "EC PRIVATE KEY" /\ ValidScalar(string.v)
    THEN Ok([curve |-> string.curve, d |-> string.v])
    ELSE Fail

\* SigningKey.to_string()
SigningKey_to_string(sk) == Bytes(BaseLen(sk.curve), sk.d)

\* SigningKey.to_pem()
SigningKey_to_pem(sk) == Pem("EC PRIVATE KEY", sk.curve, sk.d)

\* SigningKey.verifying_key
verifying_key(sk) == [curve |-> sk.curve, q |-> PointTable[sk.d]]

\* ecdsa.VerifyingKey.from_string(string, curve=curve)
VerifyingKey_from_string(string, curve) ==
    IF string.t = "bytes" /\ string.len = 2 * BaseLen(curve) /\ ValidPoint(string.v)
    THEN Ok([curve |-> curve, q |-> string.v])
    ELSE Fail

\* ecdsa.VerifyingKey.from_pem(string)
VerifyingKey_from_pem(string) ==
    IF string.t = "pem" /\ string.label = "PUBLIC KEY" /\ ValidPoint(string.v)
    THEN Ok([curve |-> string.curve, q |-> string.v])
    ELSE Fail

\* VerifyingKey.to_string()
VerifyingKey_to_string(vk) == Bytes(2 * BaseLen(vk.curve), vk.q)

\* VerifyingKey.to_pem()
VerifyingKey_to_pem(vk) == Pem("PUBLIC KEY", vk.curve, vk.q)

\* SigningKey.sign(data), with the nonce the library drew
SigningKey_sign(sk, data, nonce) ==
    [t |-> "sig", curve |-> sk.curve, d |-> sk.d, data |-> data, nonce |-> nonce]

(***************************************************************************)
(* Errors.                                                                 *)
(***************************************************************************)
Error(kind, msg) == [t |-> "error", kind |-> kind, msg |-> msg]

\* ValueError raised by the private accessors
MissingPrivate ==
    Error("MissingSourceMaterial", "Must have either _private_key or _private_key_pem.")

\* ValueError raised by the public_key accessor
NoValues == Error("MissingSourceMaterial", "No values given to derive public key")

\* whatever the ecdsa call named `at` raises on input it rejects
DecodeFailure(at) == Error("DecodeFailure", at)

IsError(r) == r.t = "error"

\* a byte string, as opposed to None, an error or a signature
IsValue(r) == r.t \in {"bytes", "pem"}

(***************************************************************************)
(* Outcome of a call on the object with slots s: the slots after the call, *)
(* the value returned or the error raised, and the number of ecdsa calls   *)
(* made.                                                                   *)
(***************************************************************************)
Return(s, value, calls) == [self |-> s, res |-> value, calls |-> calls]

Raise(s, error, calls) == [self |-> s, res |-> error, calls |-> calls]

\* private_key_pem that returns the empty slot where the code raises
private_key_pem_null(s) ==
    IF s.private_key_pem = None
    THEN IF s.private_key = None
         THEN Return(s, None, 0)
         ELSE LET private_key_object == SigningKey_from_string(s.private_key, CURVE)
              IN  IF ~private_key_object.ok
                  THEN Raise(s, DecodeFailure("SigningKey.from_string"), 1)
                  ELSE LET pem == SigningKey_to_pem(private_key_object.key)
                       IN  Return([s EXCEPT !.private_key_pem = pem], pem, 2)
    ELSE Return(s, s.private_key_pem, 0)

\* @property private_key_pem
private_key_pem(s) ==
    IF s.private_key_pem = None
    THEN IF s.private_key = None
         THEN Raise(s, MissingPrivate, 0)
         ELSE LET private_key_object == SigningKey_from_string(s.private_key, CURVE)
              IN  IF ~private_key_object.ok
                  THEN Raise(s, DecodeFailure("SigningKey.from_string"), 1)
                  ELSE LET pem == SigningKey_to_pem(private_key_object.key)
                       IN  Return([s EXCEPT !.private_key_pem = pem], pem, 2)
    ELSE Return(s, s.private_key_pem, 0)

\* private_key deriving and storing _public_key as well, once it has the scalar
private_key_eager(s) ==
    IF s.private_key = None
    THEN IF s.private_key_pem = None
         THEN Raise(s, MissingPrivate, 0)
         ELSE LET private_key_object == SigningKey_from_pem(s.private_key_pem)
              IN  IF ~private_key_object.ok
                  THEN Raise(s, DecodeFailure("SigningKey.from_pem"), 1)
                  ELSE LET raw == SigningKey_to_string(private_key_object.key)
                           pub == VerifyingKey_to_string(
                                      verifying_key(private_key_object.key))
                       IN  Return([s EXCEPT !.private_key = raw, !.public_key = pub],
                                  raw, 4)
    ELSE Return(s, s.private_key, 0)

\* private_key storing and returning the PEM bytes undecoded
private_key_undecoded(s) ==
    IF s.private_key = None
    THEN IF s.private_key_pem = None
         THEN Raise(s, MissingPrivate, 0)
         ELSE LET private_key_object == SigningKey_from_pem(s.private_key_pem)
              IN  IF ~private_key_object.ok
                  THEN Raise(s, DecodeFailure("SigningKey.from_pem"), 1)
                  ELSE Return([s EXCEPT !.private_key = s.private_key_pem],
                              s.private_key_pem, 1)
    ELSE Return(s, s.private_key, 0)

\* private_key that returns the empty slot where the code raises
private_key_no_raise(s) ==
    IF s.private_key = None
    THEN IF s.private_key_pem = None
         THEN Return(s, None, 0)
         ELSE LET private_key_object == SigningKey_from_pem(s.private_key_pem)
              IN  IF ~private_key_object.ok
                  THEN Raise(s, DecodeFailure("SigningKey.from_pem"), 1)
                  ELSE LET raw == SigningKey_to_string(private_key_object.key)
                       IN  Return([s EXCEPT !.private_key = raw], raw, 2)
    ELSE Return(s, s.private_key, 0)

\* @property private_key
private_key(s) ==
    IF s.private_key = None
    THEN IF s.private_key_pem = None
         THEN Raise(s, MissingPrivate, 0)
         ELSE LET private_key_object == SigningKey_from_pem(s.private_key_pem)
              IN  IF ~private_key_object.ok
                  THEN Raise(s, DecodeFailure("SigningKey.from_pem"), 1)
                  ELSE LET raw == SigningKey_to_string(private_key_object.key)
                       IN  Return([s EXCEPT !.private_key = raw], raw, 2)
    ELSE Return(s, s.private_key, 0)

\* the private branch of public_key, parameterised by three slips: reading the
\* _private_key slot where the code calls the accessor, keeping the scalar where the code
\* takes the verifying key, and not storing the derived value
public_key_from_private(s, slot_only, no_point, no_cache) ==
    LET r1 == IF slot_only THEN Return(s, s.private_key, 0) ELSE private_key(s)
    IN  IF IsError(r1.res)
        THEN r1
        ELSE IF Truthy(r1.res)
        THEN LET r2 == IF slot_only THEN r1 ELSE private_key(r1.self)
                 private_key_object == SigningKey_from_string(r2.res, CURVE)
                 n == r1.calls + r2.calls
             IN  IF ~private_key_object.ok
                 THEN Raise(r2.self, DecodeFailure("SigningKey.from_string"), n + 1)
                 ELSE LET raw == IF no_point
                                 THEN SigningKey_to_string(private_key_object.key)
                                 ELSE VerifyingKey_to_string(
                                          verifying_key(private_key_object.key))
                      IN  Return(IF no_cache THEN r2.self
                                 ELSE [r2.self EXCEPT !.public_key = raw], raw, n + 3)
        ELSE Raise(r1.self, NoValues, r1.calls)

public_key_with(s, slot_only, no_point, no_cache) ==
    IF s.public_key = None
    THEN IF Truthy(s.public_key_pem)
         THEN LET public_key_object == VerifyingKey_from_pem(s.public_key_pem)
              IN  IF ~public_key_object.ok
                  THEN Raise(s, DecodeFailure("VerifyingKey.from_pem"), 1)
                  ELSE LET raw == VerifyingKey_to_string(public_key_object.key)
                       IN  Return([s EXCEPT !.public_key = raw], raw, 2)
         ELSE public_key_from_private(s, slot_only, no_point, no_cache)
    ELSE Return(s, s.public_key, 0)

\* public_key storing what it derives from the private scalar in _public_key_pem
public_key_wrong_slot(s) ==
    LET r == public_key_with(s, FALSE, FALSE, TRUE)
    IN  IF s.public_key = None /\ ~Truthy(s.public_key_pem) /\ IsValue(r.res)
        THEN Return([r.self EXCEPT !.public_key_pem = r.res], r.res, r.calls)
        ELSE public_key_with(s, FALSE, FALSE, FALSE)

\* public_key testing self._private_key where the code calls self.private_key
public_key_slot_only(s) == public_key_with(s, TRUE, FALSE, FALSE)

\* public_key storing the scalar's bytes where the code stores the verifying key's
public_key_no_point(s) == public_key_with(s, FALSE, TRUE, FALSE)

\* public_key returning the derived value without storing it in _public_key
public_key_no_cache(s) == public_key_with(s, FALSE, FALSE, TRUE)

\* public_key decoding _public_key_pem even when _public_key is populated
public_key_pem_first(s) ==
    IF Truthy(s.public_key_pem)
    THEN LET public_key_object == VerifyingKey_from_pem(s.public_key_pem)
         IN  IF ~public_key_object.ok
             THEN Raise(s, DecodeFailure("VerifyingKey.from_pem"), 1)
             ELSE LET raw == VerifyingKey_to_string(public_key_object.key)
                  IN  Return([s EXCEPT !.public_key = raw], raw, 2)
    ELSE public_key_with(s, FALSE, FALSE, FALSE)

\* @property public_key; the elif reads self.private_key and the branch reads it again
public_key(s) ==
    IF s.public_key = None
    THEN IF Truthy(s.public_key_pem)
         THEN LET public_key_object == VerifyingKey_from_pem(s.public_key_pem)
              IN  IF ~public_key_object.ok
                  THEN Raise(s, DecodeFailure("VerifyingKey.from_pem"), 1)
                  ELSE LET raw == VerifyingKey_to_string(public_key_object.key)
                       IN  Return([s EXCEPT !.public_key = raw], raw, 2)
         ELSE LET r1 == private_key(s)
              IN  IF IsError(r1.res)
                  THEN r1
                  ELSE IF Truthy(r1.res)
                  THEN LET r2 == private_key(r1.self)
                           private_key_object == SigningKey_from_string(r2.res, CURVE)
                           n == r1.calls + r2.calls
                       IN  IF ~private_key_object.ok
                           THEN Raise(r2.self, DecodeFailure("SigningKey.from_string"), n + 1)
                           ELSE LET raw == VerifyingKey_to_string(
                                               verifying_key(private_key_object.key))
                                IN  Return([r2.self EXCEPT !.public_key = raw], raw, n + 3)
                  ELSE Raise(r1.self, NoValues, r1.calls)
    ELSE Return(s, s.public_key, 0)

\* @property public_key_pem
public_key_pem(s) ==
    IF s.public_key_pem = None
    THEN LET r == public_key(s)
         IN  IF IsError(r.res)
             THEN r
             ELSE LET public_key_object == VerifyingKey_from_string(r.res, CURVE)
                  IN  IF ~public_key_object.ok
                      THEN Raise(r.self, DecodeFailure("VerifyingKey.from_string"),
                                 r.calls + 1)
                      ELSE LET pem == VerifyingKey_to_pem(public_key_object.key)
                           IN  Return([r.self EXCEPT !.public_key_pem = pem], pem,
                                      r.calls + 2)
    ELSE Return(s, s.public_key_pem, 0)

\* sign deriving the PEM of the private key before signing
sign_filling_pem(s, data, nonce) ==
    LET r0 == private_key_pem(s)
        r == private_key(r0.self)
    IN  IF IsError(r.res)
        THEN r
        ELSE LET private_key_object == SigningKey_from_string(r.res, CURVE)
             IN  IF ~private_key_object.ok
                 THEN Raise(r.self, DecodeFailure("SigningKey.from_string"), r.calls + 1)
                 ELSE Return(r.self, SigningKey_sign(private_key_object.key, data, nonce),
                             r.calls + 2)

\* sign reading the _private_key slot where the code calls the private_key accessor
sign_slot_only(s, data, nonce) ==
    LET private_key_object == SigningKey_from_string(s.private_key, CURVE)
    IN  IF ~private_key_object.ok
        THEN Raise(s, DecodeFailure("SigningKey.from_string"), 1)
        ELSE Return(s, SigningKey_sign(private_key_object.key, data, nonce), 2)

\* def sign(self, data)
sign(s, data, nonce) ==
    LET r == private_key(s)
    IN  IF IsError(r.res)
        THEN r
        ELSE LET private_key_object == SigningKey_from_string(r.res, CURVE)
             IN  IF ~private_key_object.ok
                 THEN Raise(r.self, DecodeFailure("SigningKey.from_string"), r.calls + 1)
                 ELSE Return(r.self, SigningKey_sign(private_key_object.key, data, nonce),
                             r.calls + 2)

(***************************************************************************)
(* Construction.                                                           *)
(***************************************************************************)
\* def __init__(self, private_key_pem, private_key, public_key_pem, public_key)
SECP256K1Key(a_private_key_pem, a_private_key, a_public_key_pem, a_public_key) ==
    [private_key_pem |-> a_private_key_pem, private_key |-> a_private_key,
     public_key_pem |-> a_public_key_pem, public_key |-> a_public_key]

Scalars == 1..MaxScalar

\* byte strings a caller passes as private_key
PrivateKeyInputs ==
    {None, Empty, Bytes(BaseLen(ForeignCurve), 1)}
        \cup {Bytes(BaseLen(CURVE), d) : d \in Scalars}

\* byte strings a caller passes as private_key_pem
PrivateKeyPemInputs ==
    {None, Empty, Garbage, Pem("EC PRIVATE KEY", ForeignCurve, 1)}
        \cup {Pem("EC PRIVATE KEY", CURVE, d) : d \in Scalars}

\* byte strings a caller passes as public_key
PublicKeyInputs ==
    {None, Empty, Bytes(2 * BaseLen(ForeignCurve), PointTable[1])}
        \cup {Bytes(2 * BaseLen(CURVE), PointTable[d]) : d \in Scalars}

\* byte strings a caller passes as public_key_pem
PublicKeyPemInputs ==
    {None, Empty, Garbage, Pem("PUBLIC KEY", ForeignCurve, PointTable[1])}
        \cup {Pem("PUBLIC KEY", CURVE, PointTable[d]) : d \in Scalars}

\* messages passed to sign
Messages == {"hello", ""}

Accessors == {"private_key_pem", "private_key", "public_key_pem", "public_key"}

NotCalled == [t |-> "NotCalled"]

NoCall == [op |-> "none", res |-> NotCalled, calls |-> 0, again |-> FALSE]

Objs == DOMAIN self

\* made[o]: the constructor object o came from; stack: the call stacks of the threads
\* sharing object 1 in the step-by-step specification; writes[f]: the stores made to slot f
NoWrites == [f \in Accessors |-> 0]

\* one object, constructed from any combination of the four fields
Init ==
    \E a \in PrivateKeyPemInputs, b \in PrivateKeyInputs,
       c \in PublicKeyPemInputs, d \in PublicKeyInputs :
        /\ self = [o \in {1} |-> SECP256K1Key(a, b, c, d)]
        /\ given = self
        /\ hist = [o \in {1} |-> [op \in Accessors |-> NotCalled]]
        /\ last = [o \in {1} |-> NoCall]
        /\ made = [o \in {1} |-> "__init__"]
        /\ stack = <<>>
        /\ writes = NoWrites

(***************************************************************************)
(* Calls, each taken as one step.  hist[o][op] is the outcome of the latest call of accessor op on *)
(* object o; last[o] is the latest call on o, and last[o].again tells      *)
(* whether that accessor had returned a value on o before.                 *)
(***************************************************************************)
Access(o, op, r) ==
    /\ self' = [self EXCEPT ![o] = r.self]
    /\ hist' = [hist EXCEPT ![o][op] = r.res]
    /\ last' = [last EXCEPT ![o] = [op |-> op, res |-> r.res, calls |-> r.calls,
                                    again |-> ~(hist[o][op].t \in {"NotCalled", "error"})]]
    /\ UNCHANGED <<given, made, stack, writes>>

call_private_key_pem(o) == Access(o, "private_key_pem", private_key_pem(self[o]))

call_private_key(o) == Access(o, "private_key", private_key(self[o]))

call_public_key_pem(o) == Access(o, "public_key_pem", public_key_pem(self[o]))

call_public_key(o) == Access(o, "public_key", public_key(self[o]))

call_sign(o) ==
    \E data \in Messages, nonce \in 1..MaxNonce :
        LET r == sign(self[o], data, nonce)
        IN  /\ self' = [self EXCEPT ![o] = r.self]
            /\ last' = [last EXCEPT ![o] = [op |-> "sign", res |-> r.res,
                                            calls |-> r.calls, again |-> FALSE]]
            /\ UNCHANGED <<given, hist, made, stack, writes>>

Next ==
    \/ \E o \in Objs : call_private_key_pem(o)
    \/ \E o \in Objs : call_private_key(o)
    \/ \E o \in Objs : call_public_key_pem(o)
    \/ \E o \in Objs : call_public_key(o)
    \/ \E o \in Objs : call_sign(o)

Spec == Init /\ [][Next]_vars

\* two objects for the same scalar: 1 from private_key_pem only, 2 from private_key only
InitPair ==
    \E d \in Scalars :
        LET p == Bytes(BaseLen(CURVE), d)
            pem == SigningKey_to_pem(SigningKey_from_string(p, CURVE).key)
        IN  /\ self = [o \in {1, 2} |-> IF o = 1 THEN SECP256K1Key(pem, None, None, None)
                                                 ELSE SECP256K1Key(None, p, None, None)]
            /\ given = self
            /\ hist = [o \in {1, 2} |-> [op \in Accessors |-> NotCalled]]
            /\ last = [o \in {1, 2} |-> NoCall]
            /\ made = [o \in {1, 2} |-> "__init__"]
            /\ stack = <<>>
            /\ writes = NoWrites

SpecPair == InitPair /\ [][Next]_vars

(***************************************************************************)
(* The static constructors.  A file read returns the file's bytes or       *)
(* raises, and then no object is made.                                     *)
(***************************************************************************)
IOFailure == Error("IOFailure", "read_binary_file")

\* what files hold: PEM blocks of either kind and curve, nothing, or something else
FileContents ==
    {Empty, Garbage, Pem("EC PRIVATE KEY", ForeignCurve, 1),
     Pem("PUBLIC KEY", ForeignCurve, PointTable[1])}
        \cup {Pem("EC PRIVATE KEY", CURVE, d) : d \in Scalars}
        \cup {Pem("PUBLIC KEY", CURVE, PointTable[d]) : d \in Scalars}

\* read_binary_file(path): the outcomes of reading any path
read_binary_file == FileContents \cup {IOFailure}

\* ecdsa.SigningKey.generate(curve=curve), having drawn scalar d
SigningKey_generate(curve, d) == [curve |-> curve, d |-> d]

\* def generate(), the library having drawn scalar d
generate(d) ==
    LET private_key_object == SigningKey_generate(CURVE, d)
    IN  SECP256K1Key(None, SigningKey_to_string(private_key_object), None, None)

\* def from_private_key_path(private_key_pem_path), the file read giving content
from_private_key_path(content) == SECP256K1Key(content, None, None, None)

\* from_public_key_path passing the file's bytes as private_key_pem
from_public_key_path_as_private(content) == SECP256K1Key(content, None, None, None)

\* def from_public_key_path(public_key_pem_path), the file read giving content
from_public_key_path(content) == SECP256K1Key(None, None, content, None)

\* def from_private_key(private_key)
from_private_key(bytes) == SECP256K1Key(None, bytes, None, None)

\* object o comes into being with slots s, made by constructor ctor
Construct(o, ctor, s) ==
    /\ o \notin Objs
    /\ self' = (o :> s) @@ self
    /\ given' = (o :> s) @@ given
    /\ hist' = (o :> [op \in Accessors |-> NotCalled]) @@ hist
    /\ last' = (o :> NoCall) @@ last
    /\ made' = (o :> ctor) @@ made
    /\ UNCHANGED <<stack, writes>>

new_generate ==
    \E d \in 1..Len(PointTable) : Construct(1, "generate", generate(d))

new_from_private_key_path ==
    \E content \in read_binary_file :
        IF content = IOFailure THEN UNCHANGED vars
        ELSE Construct(1, "from_private_key_path", from_private_key_path(content))

new_from_public_key_path ==
    \E content \in read_binary_file :
        IF content = IOFailure THEN UNCHANGED vars
        ELSE Construct(1, "from_public_key_path", from_public_key_path(content))

new_from_private_key ==
    \E bytes \in PrivateKeyInputs \ {None} :
        Construct(1, "from_private_key", from_private_key(bytes))

\* no object yet
InitCtor ==
    /\ self = <<>>
    /\ given = <<>>
    /\ hist = <<>>
    /\ last = <<>>
    /\ made = <<>>
    /\ stack = <<>>
    /\ writes = NoWrites

NextCtor ==
    \/ new_generate
    \/ new_from_private_key_path
    \/ new_from_public_key_path
    \/ new_from_private_key
    \/ Next

SpecCtor == InitCtor /\ [][NextCtor]_vars

\* object 1 made from raw private bytes; object 2 is made later from the PEM that
\* object 1's private_key_pem accessor returned
InitRoundTrip ==
    \E bytes \in PrivateKeyInputs \ {None} :
        /\ self = [o \in {1} |-> from_private_key(bytes)]
        /\ given = self
        /\ hist = [o \in {1} |-> [op \in Accessors |-> NotCalled]]
        /\ last = [o \in {1} |-> NoCall]
        /\ made = [o \in {1} |-> "from_private_key"]
        /\ stack = <<>>
        /\ writes = NoWrites

new_from_private_key_pem_of_first ==
    /\ IsValue(hist[1]["private_key_pem"])
    /\ Construct(2, "__init__",
                 SECP256K1Key(hist[1]["private_key_pem"], None, None, None))

NextRoundTrip ==
    \/ new_from_private_key_pem_of_first
    \/ Next

SpecRoundTrip == InitRoundTrip /\ [][NextRoundTrip]_vars

(***************************************************************************)
(* The same code taken one step at a time, for callers that share object 1.*)
(* A thread's stack is a sequence of frames [fn, pc, tmp]: the function    *)
(* being evaluated, the source line it is at, and the local value it       *)
(* holds.  One step is one read or one store of a slot (an attribute read  *)
(* or store is atomic in CPython) together with the local computation      *)
(* around it.  No exception is caught anywhere, so a raise ends the        *)
(* thread's whole call.                                                    *)
(***************************************************************************)
Goto(pc, tmp) == [k |-> "goto", pc |-> pc, tmp |-> tmp]

Store(slot, val, pc) == [k |-> "store", slot |-> slot, val |-> val, pc |-> pc]

Call(fn, pc) == [k |-> "call", fn |-> fn, pc |-> pc]

Ret(val) == [k |-> "return", val |-> val]

Exc(error) == [k |-> "raise", val |-> error]

\* the line each function starts at
Entry(fn) ==
    CASE fn = "private_key_pem" -> 37
      [] fn = "private_key" -> 49
      [] fn = "public_key_pem" -> 59
      [] fn = "public_key" -> 69
      [] fn = "sign" -> 84

\* private_key_pem, lines 37-44
private_key_pem_step(pc, tmp, s) ==
    CASE pc = 37 -> IF s.private_key_pem = None THEN Goto(38, tmp) ELSE Goto(44, tmp)
      [] pc = 38 -> IF s.private_key = None THEN Exc(MissingPrivate) ELSE Goto(40, tmp)
      [] pc = 40 -> LET private_key_object == SigningKey_from_string(s.private_key, CURVE)
                    IN  IF ~private_key_object.ok
                        THEN Exc(DecodeFailure("SigningKey.from_string"))
                        ELSE Goto(43, SigningKey_to_pem(private_key_object.key))
      [] pc = 43 -> Store("private_key_pem", tmp, 44)
      [] pc = 44 -> Ret(s.private_key_pem)

\* private_key storing b"" in _private_key before it stores the decoded scalar
private_key_step_two_stores(pc, tmp, s) ==
    CASE pc = 49 -> IF s.private_key = None THEN Goto(50, tmp) ELSE Goto(54, tmp)
      [] pc = 50 -> IF s.private_key_pem = None THEN Exc(MissingPrivate) ELSE Goto(52, tmp)
      [] pc = 52 -> LET private_key_object == SigningKey_from_pem(s.private_key_pem)
                    IN  IF ~private_key_object.ok
                        THEN Exc(DecodeFailure("SigningKey.from_pem"))
                        ELSE Goto(53, SigningKey_to_string(private_key_object.key))
      [] pc = 53 -> IF s.private_key = None THEN Store("private_key", Empty, 53)
                    ELSE Store("private_key", tmp, 54)
      [] pc = 54 -> Ret(s.private_key)

\* private_key asking public_key for help when it has no PEM to decode
private_key_step_asks_public(pc, tmp, s) ==
    CASE pc = 49 -> IF s.private_key = None THEN Goto(50, tmp) ELSE Goto(54, tmp)
      [] pc = 50 -> IF s.private_key_pem = None THEN Call("public_key", 50)
                    ELSE Goto(52, tmp)
      [] pc = 52 -> LET private_key_object == SigningKey_from_pem(s.private_key_pem)
                    IN  IF ~private_key_object.ok
                        THEN Exc(DecodeFailure("SigningKey.from_pem"))
                        ELSE Goto(53, SigningKey_to_string(private_key_object.key))
      [] pc = 53 -> Store("private_key", tmp, 54)
      [] pc = 54 -> Ret(s.private_key)

\* private_key, lines 49-54
private_key_step(pc, tmp, s) ==
    CASE pc = 49 -> IF s.private_key = None THEN Goto(50, tmp) ELSE Goto(54, tmp)
      [] pc = 50 -> IF s.private_key_pem = None THEN Exc(MissingPrivate) ELSE Goto(52, tmp)
      [] pc = 52 -> LET private_key_object == SigningKey_from_pem(s.private_key_pem)
                    IN  IF ~private_key_object.ok
                        THEN Exc(DecodeFailure("SigningKey.from_pem"))
                        ELSE Goto(53, SigningKey_to_string(private_key_object.key))
      [] pc = 53 -> Store("private_key", tmp, 54)
      [] pc = 54 -> Ret(s.private_key)

\* public_key_pem, lines 59-64; at 61 tmp holds what self.public_key returned
public_key_pem_step(pc, tmp, s) ==
    CASE pc = 59 -> IF s.public_key_pem = None THEN Goto(60, tmp) ELSE Goto(64, tmp)
      [] pc = 60 -> Call("public_key", 61)
      [] pc = 61 -> LET public_key_object == VerifyingKey_from_string(tmp, CURVE)
                    IN  IF ~public_key_object.ok
                        THEN Exc(DecodeFailure("VerifyingKey.from_string"))
                        ELSE Goto(63, VerifyingKey_to_pem(public_key_object.key))
      [] pc = 63 -> Store("public_key_pem", tmp, 64)
      [] pc = 64 -> Ret(s.public_key_pem)

\* public_key, lines 69-80; at 74 and at 76 tmp holds what self.private_key returned
public_key_step(pc, tmp, s) ==
    CASE pc = 69 -> IF s.public_key = None THEN Goto(70, tmp) ELSE Goto(80, tmp)
      [] pc = 70 -> IF Truthy(s.public_key_pem) THEN Goto(71, tmp) ELSE Goto(73, tmp)
      [] pc = 71 -> LET public_key_object == VerifyingKey_from_pem(s.public_key_pem)
                    IN  IF ~public_key_object.ok
                        THEN Exc(DecodeFailure("VerifyingKey.from_pem"))
                        ELSE Goto(72, VerifyingKey_to_string(public_key_object.key))
      [] pc = 72 -> Store("public_key", tmp, 80)
      [] pc = 73 -> Call("private_key", 74)
      [] pc = 74 -> IF Truthy(tmp) THEN Goto(75, tmp) ELSE Goto(79, tmp)
      [] pc = 75 -> Call("private_key", 76)
      [] pc = 76 -> LET private_key_object == SigningKey_from_string(tmp, CURVE)
                    IN  IF ~private_key_object.ok
                        THEN Exc(DecodeFailure("SigningKey.from_string"))
                        ELSE Goto(77, VerifyingKey_to_string(
                                          verifying_key(private_key_object.key)))
      [] pc = 77 -> Store("public_key", tmp, 80)
      [] pc = 79 -> Exc(NoValues)
      [] pc = 80 -> Ret(s.public_key)

\* sign, lines 84-87; at 86 tmp holds what self.private_key returned
sign_step(pc, tmp, s, data, nonce) ==
    CASE pc = 84 -> Call("private_key", 86)
      [] pc = 86 -> LET private_key_object == SigningKey_from_string(tmp, CURVE)
                    IN  IF ~private_key_object.ok
                        THEN Exc(DecodeFailure("SigningKey.from_string"))
                        ELSE Goto(87, SigningKey_sign(private_key_object.key, data, nonce))
      [] pc = 87 -> Ret(tmp)

\* what the frame on top of a stack does next, object 1 having slots s
StepOf(frame, s, data, nonce) ==
    CASE frame.fn = "private_key_pem" -> private_key_pem_step(frame.pc, frame.tmp, s)
      [] frame.fn = "private_key" -> private_key_step(frame.pc, frame.tmp, s)
      [] frame.fn = "public_key_pem" -> public_key_pem_step(frame.pc, frame.tmp, s)
      [] frame.fn = "public_key" -> public_key_step(frame.pc, frame.tmp, s)
      [] frame.fn = "sign" -> sign_step(frame.pc, frame.tmp, s, data, nonce)

Threads == DOMAIN stack

Frame(fn, pc, tmp) == [fn |-> fn, pc |-> pc, tmp |-> tmp]

Top(st) == st[Len(st)]

\* st with its top frame moved to pc, holding tmp
Moved(st, pc, tmp) == [st EXCEPT ![Len(st)] = Frame(Top(st).fn, pc, tmp)]

\* st after its top frame returned val: the caller goes on with val in hand
Popped(st, val) ==
    LET rest == SubSeq(st, 1, Len(st) - 1)
    IN  IF rest = <<>> THEN rest
        ELSE [rest EXCEPT ![Len(rest)] = Frame(Top(rest).fn, Top(rest).pc, val)]

\* the outcome of thread t's call: hist keeps the outcome of the accessor call that
\* ended last, and of that one only
Finish(t, outcome) ==
    LET op == stack[t][1].fn
    IN  hist' = IF op \in Accessors
                THEN [hist EXCEPT ![1] = [f \in Accessors |->
                                            IF f = op THEN outcome ELSE NotCalled]]
                ELSE hist

\* thread t, idle, calls op on object 1
begin(t, op) ==
    /\ stack[t] = <<>>
    /\ stack' = [stack EXCEPT ![t] = <<Frame(op, Entry(op), None)>>]
    /\ UNCHANGED <<self, given, hist, last, made, writes>>

\* the message and the nonce matter at line 86 of sign alone: every other step is
\* taken with the fixed value dflt in their place
Drawn(frame, values, dflt) ==
    IF frame.fn = "sign" /\ frame.pc = 86 THEN values ELSE {dflt}

\* thread t takes the next step of its call
step(t) ==
    /\ stack[t] # <<>>
    /\ \E data \in Drawn(Top(stack[t]), Messages, ""),
          nonce \in Drawn(Top(stack[t]), 1..MaxNonce, 1) :
        LET st == stack[t]
            e == StepOf(Top(st), self[1], data, nonce)
        IN  CASE e.k = "goto" ->
                   /\ stack' = [stack EXCEPT ![t] = Moved(st, e.pc, e.tmp)]
                   /\ UNCHANGED <<self, hist, writes>>
              [] e.k = "store" ->
                   /\ self' = [self EXCEPT ![1][e.slot] = e.val]
                   /\ writes' = [writes EXCEPT ![e.slot] = @ + 1]
                   /\ stack' = [stack EXCEPT ![t] = Moved(st, e.pc, Top(st).tmp)]
                   /\ UNCHANGED hist
              [] e.k = "call" ->
                   /\ stack' = [stack EXCEPT ![t] =
                                    Append(Moved(st, e.pc, Top(st).tmp),
                                           Frame(e.fn, Entry(e.fn), None))]
                   /\ UNCHANGED <<self, hist, writes>>
              [] e.k = "return" ->
                   /\ stack' = [stack EXCEPT ![t] = Popped(st, e.val)]
                   /\ IF Len(st) = 1 THEN Finish(t, e.val) ELSE UNCHANGED hist
                   /\ UNCHANGED <<self, writes>>
              [] e.k = "raise" ->
                   /\ stack' = [stack EXCEPT ![t] = <<>>]
                   /\ Finish(t, e.val)
                   /\ UNCHANGED <<self, writes>>
    /\ UNCHANGED <<given, last, made>>

NextSteps ==
    \/ \E t \in Threads : begin(t, "private_key_pem")
    \/ \E t \in Threads : begin(t, "private_key")
    \/ \E t \in Threads : begin(t, "public_key_pem")
    \/ \E t \in Threads : begin(t, "public_key")
    \/ \E t \in Threads : begin(t, "sign")
    \/ \E t \in Threads : step(t)

\* callers 1..MaxThreads share one object, constructed from any combination of at most
\* two of the four fields
InitThreads ==
    \E a \in PrivateKeyPemInputs, b \in PrivateKeyInputs,
       c \in PublicKeyPemInputs, d \in PublicKeyInputs :
        /\ Cardinality({f \in Accessors : SECP256K1Key(a, b, c, d)[f] # None}) <= 2
        /\ self = [o \in {1} |-> SECP256K1Key(a, b, c, d)]
        /\ given = self
        /\ hist = [o \in {1} |-> [op \in Accessors |-> NotCalled]]
        /\ last = [o \in {1} |-> NoCall]
        /\ made = [o \in {1} |-> "__init__"]
        /\ stack = [t \in 1..MaxThreads |-> <<>>]
        /\ writes = NoWrites

SpecThreads == InitThreads /\ [][NextSteps]_vars

\* one caller alone, on an object constructed from any combination of fields; a call
\* that has begun keeps taking steps
InitCall ==
    \E a \in PrivateKeyPemInputs, b \in PrivateKeyInputs,
       c \in PublicKeyPemInputs, d \in PublicKeyInputs :
        /\ self = [o \in {1} |-> SECP256K1Key(a, b, c, d)]
        /\ given = self
        /\ hist = [o \in {1} |-> [op \in Accessors |-> NotCalled]]
        /\ last = [o \in {1} |-> NoCall]
        /\ made = [o \in {1} |-> "__init__"]
        /\ stack = [t \in {1} |-> <<>>]
        /\ writes = NoWrites

SpecCall == InitCall /\ [][NextSteps]_vars /\ WF_vars(step(1))

(***************************************************************************)
(* Vocabulary of the properties.                                           *)
(***************************************************************************)
AllAbsent(s) == \A f \in Accessors : s[f] = None

PrivateAbsent(s) == s.private_key = None /\ s.private_key_pem = None

PublicAbsent(s) == s.public_key = None /\ s.public_key_pem = None

PublicOnly(s) == PrivateAbsent(s) /\ ~PublicAbsent(s)

PrivateOnly(s) == PublicAbsent(s) /\ ~PrivateAbsent(s)

\* the raw scalar the private accessors work from is a valid scalar of CURVE
SourceScalarOk(s) ==
    IF s.private_key # None
    THEN SigningKey_from_string(s.private_key, CURVE).ok
    ELSE /\ s.private_key_pem # None
         /\ SigningKey_from_pem(s.private_key_pem).ok
         /\ SigningKey_from_string(
                SigningKey_to_string(SigningKey_from_pem(s.private_key_pem).key), CURVE).ok

\* what the populated private slots, and the populated public slots, decode to
PrivateDecodings(s) ==
    (IF s.private_key = None THEN {} ELSE {SigningKey_from_string(s.private_key, CURVE)})
        \cup (IF s.private_key_pem = None THEN {}
              ELSE {SigningKey_from_pem(s.private_key_pem)})

PublicDecodings(s) ==
    (IF s.public_key = None THEN {} ELSE {VerifyingKey_from_string(s.public_key, CURVE)})
        \cup (IF s.public_key_pem = None THEN {}
              ELSE {VerifyingKey_from_pem(s.public_key_pem)})

\* every populated slot decodes to a key of CURVE, the private slots to one scalar, the
\* public slots to one point, and that point is the scalar's public point
Consistent(s) ==
    /\ \A k \in PrivateDecodings(s) \cup PublicDecodings(s) : k.ok /\ k.key.curve = CURVE
    /\ \A k1, k2 \in PrivateDecodings(s) : k1 = k2
    /\ \A k1, k2 \in PublicDecodings(s) : k1 = k2
    /\ \A sk \in PrivateDecodings(s), vk \in PublicDecodings(s) :
           verifying_key(sk.key) = vk.key

\* the outcome of accessor op on a fresh object with slots s
OutcomeOf(op, s) ==
    CASE op = "private_key_pem" -> private_key_pem(s).res
      [] op = "private_key" -> private_key(s).res
      [] op = "public_key_pem" -> public_key_pem(s).res
      [] op = "public_key" -> public_key(s).res

(***************************************************************************)
(* Properties.                                                             *)
(***************************************************************************)
PrivateOps == {"private_key", "private_key_pem", "sign"}

PublicAccessors == {"public_key", "public_key_pem"}

\* C1: on an object constructed with public material only, the private_key accessor,
\* the private_key_pem accessor and sign each raise the missing-source-material error,
\* never return a value, and both private slots stay absent.
C1_PublicOnlyNeverPrivate ==
    \A o \in Objs :
        PublicOnly(given[o]) =>
            /\ PrivateAbsent(self[o])
            /\ last[o].op \in PrivateOps => last[o].res = MissingPrivate
            /\ \A op \in {"private_key", "private_key_pem"} :
                   hist[o][op] \in {NotCalled, MissingPrivate}

C1_Witness ==
    \E o \in Objs :
        /\ PublicOnly(given[o])
        /\ self[o].public_key # given[o].public_key
        /\ last[o].op = "sign"
        /\ last[o].res = MissingPrivate
        /\ hist[o]["private_key"] = MissingPrivate

\* C2 as stated: on an object constructed with private material only, public_key and
\* public_key_pem always succeed, the slot asked for is cached, and a later call of the
\* same accessor makes no ecdsa call.
C2_PrivateOnlyPublicSucceeds ==
    \A o \in Objs :
        (PrivateOnly(given[o]) /\ last[o].op \in PublicAccessors) =>
            /\ IsValue(last[o].res)
            /\ self[o][last[o].op] = last[o].res
            /\ last[o].again => last[o].calls = 0

\* C2 amended: the same, for private material whose raw scalar (private_key, or what
\* private_key_pem decodes to when private_key is absent) is a valid scalar of CURVE.
C2_ValidPrivateOnlyPublicSucceeds ==
    \A o \in Objs :
        (PrivateOnly(given[o]) /\ SourceScalarOk(given[o])
            /\ last[o].op \in PublicAccessors) =>
            /\ IsValue(last[o].res)
            /\ self[o][last[o].op] = last[o].res
            /\ last[o].again => last[o].calls = 0

C2_Witness ==
    \E o \in Objs :
        /\ PrivateOnly(given[o])
        /\ SourceScalarOk(given[o])
        /\ given[o].private_key = None
        /\ last[o].op = "public_key_pem"
        /\ last[o].again
        /\ last[o].calls = 0
        /\ IsValue(last[o].res)

\* C3: a slot that holds a value is never cleared and never changed, and a call of the
\* accessor of a populated slot returns the slot's value without any ecdsa call.
C3_SlotsOnlyFill ==
    [][\A o \in Objs :
          /\ \A f \in Accessors : self[o][f] # None => self'[o][f] = self[o][f]
          /\ \A f \in Accessors :
                 (last'[o] # last[o] /\ last'[o].op = f /\ self[o][f] # None) =>
                     (last'[o].calls = 0 /\ last'[o].res = self[o][f])]_vars

C3_Witness ==
    \E o \in Objs :
        /\ given[o].public_key = None
        /\ given[o].public_key_pem # None
        /\ self[o].public_key # None
        /\ given[o].private_key = None
        /\ self[o].private_key # None
        /\ last[o].op = "public_key"
        /\ last[o].again

\* C4: a call that ends in an error leaves all four slots as they were before the call,
\* slots filled in the course of the derivation included.
C4_FailureLeavesSlots ==
    [][\A o \in Objs : IsError(last'[o].res) => self'[o] = self[o]]_vars

\* C5: the outcome of an accessor (value or error) depends only on the fields supplied
\* at construction: whatever was called before, it is the outcome the accessor has on a
\* freshly constructed object.
C5_OutcomeIndependentOfOrder ==
    \A o \in Objs : \A op \in Accessors :
        hist[o][op] # NotCalled => hist[o][op] = OutcomeOf(op, given[o])

C5_Witness ==
    \E o \in Objs :
        /\ given[o].private_key = None
        /\ given[o].public_key = None
        /\ given[o].public_key_pem = None
        /\ hist[o]["private_key"] # NotCalled
        /\ hist[o]["private_key_pem"] # NotCalled
        /\ hist[o]["public_key_pem"] # NotCalled
        /\ last[o].op = "public_key"
        /\ last[o].calls = 0
        /\ IsValue(last[o].res)

\* C6: with none of the four slots populated, the public_key accessor fails with
\* "No values given to derive public key".
C6_NoValuesError ==
    \A o \in Objs :
        (AllAbsent(self[o]) /\ last[o].op = "public_key") => last[o].res = NoValues

\* C7 as stated: for every construction input, after an accessor has returned a value
\* the populated slots are consistent: one scalar, one point, the scalar's point.
C7_AlwaysConsistent ==
    \A o \in Objs :
        (last[o].op \in Accessors /\ IsValue(last[o].res)) => Consistent(self[o])

\* C7 amended: for every construction input whose supplied fields are well-formed
\* encodings, on CURVE, of one and the same key pair, every reachable state is
\* consistent and every value an accessor returns is the content of its slot.
C7_ConsistentInputsStayConsistent ==
    \A o \in Objs :
        Consistent(given[o]) =>
            /\ Consistent(self[o])
            /\ (last[o].op \in Accessors /\ IsValue(last[o].res)) =>
                   self[o][last[o].op] = last[o].res

C7_Witness ==
    \E o \in Objs :
        /\ Consistent(given[o])
        /\ PublicAbsent(given[o])
        /\ given[o].private_key = None
        /\ \A f \in Accessors : self[o][f] # None
        /\ last[o].op = "public_key_pem"

\* C8 as stated: sign returns a signature exactly when the private_key accessor returns
\* a value in the state sign is called in, and otherwise raises the accessor's error.
C8_SignIffPrivateKey ==
    [][\A o \in Objs :
          (last'[o] # last[o] /\ last'[o].op = "sign") =>
              LET r == private_key(self[o])
              IN  IF IsError(r.res) THEN last'[o].res = r.res
                  ELSE last'[o].res.t = "sig"]_vars

\* C8 amended: when the private_key accessor raises, sign raises the same error; when it
\* returns a value, sign returns a signature exactly when that value is a valid raw
\* scalar of CURVE, and otherwise propagates the decode failure; with both private slots
\* absent sign never returns a signature.
C8_SignFollowsPrivateKey ==
    [][\A o \in Objs :
          (last'[o] # last[o] /\ last'[o].op = "sign") =>
              LET r == private_key(self[o])
              IN  /\ IF IsError(r.res) THEN last'[o].res = r.res
                      ELSE IF SigningKey_from_string(r.res, CURVE).ok
                      THEN last'[o].res.t = "sig" /\ last'[o].res.d = r.res.v
                      ELSE last'[o].res = DecodeFailure("SigningKey.from_string")
                  /\ PrivateAbsent(self[o]) => last'[o].res = MissingPrivate]_vars

C8_Witness ==
    \E o \in Objs :
        /\ given[o].private_key = None
        /\ last[o].op = "sign"
        /\ last[o].res.t = "sig"
        /\ self[o].private_key # None

\* C9: every combination of the four fields is accepted at construction; on an object
\* constructed with none of them every accessor and sign fail with a
\* missing-source-material error, and no slot is ever populated.
C9_EmptyObjectAlwaysFails ==
    \A o \in Objs :
        AllAbsent(given[o]) =>
            /\ AllAbsent(self[o])
            /\ last[o].op # "none" =>
                   (IsError(last[o].res) /\ last[o].res.kind = "MissingSourceMaterial")
            /\ \A op \in Accessors :
                   hist[o][op] # NotCalled =>
                       (IsError(hist[o][op]) /\ hist[o][op].kind = "MissingSourceMaterial")

C9_Witness ==
    \E o \in Objs :
        /\ AllAbsent(given[o])
        /\ \A op \in Accessors : hist[o][op] # NotCalled
        /\ last[o].op = "sign"
        /\ IsError(last[o].res)

\* C10: an object constructed with only private_key_pem = encode_pem(p) (object 1) and
\* one constructed with only private_key = p (object 2) return equal values from each
\* accessor, in whatever order the accessors are called on each.
C10_PemAndRawAgree ==
    \A op \in Accessors :
        (hist[1][op] # NotCalled /\ hist[2][op] # NotCalled) =>
            (IsValue(hist[1][op]) /\ hist[1][op] = hist[2][op])

C10_Witness ==
    /\ last[1].op = "private_key"
    /\ last[2].op = "private_key_pem"
    /\ \A op \in Accessors : IsValue(hist[1][op]) /\ hist[1][op] = hist[2][op]
    /\ given[1].private_key = None
    /\ given[2].private_key_pem = None
    /\ self[1] = self[2]

\* C13: generate() populates private_key only, from_private_key(bytes) populates
\* private_key only, from_private_key_path populates private_key_pem only and
\* from_public_key_path populates public_key_pem only, so that sign on an object from
\* from_public_key_path fails with the missing-source-material error.
C13_ConstructorPopulations ==
    \A o \in Objs :
        LET g == given[o]
            Only(f) == g[f] # None /\ \A h \in Accessors \ {f} : g[h] = None
        IN  /\ made[o] = "generate" =>
                (Only("private_key") /\ SigningKey_from_string(g.private_key, CURVE).ok)
            /\ made[o] = "from_private_key" => Only("private_key")
            /\ made[o] = "from_private_key_path" => Only("private_key_pem")
            /\ made[o] = "from_public_key_path" =>
                   /\ Only("public_key_pem")
                   /\ last[o].op = "sign" => last[o].res = MissingPrivate

C13_Witness ==
    \E o \in Objs :
        /\ made[o] = "from_public_key_path"
        /\ VerifyingKey_from_pem(given[o].public_key_pem).ok
        /\ self[o].public_key # None
        /\ last[o].op = "sign"
        /\ last[o].res = MissingPrivate

\* C14: taking private_key_pem from an object constructed with private_key = p and
\* constructing a second object with only that private_key_pem, the second object's
\* private_key accessor returns p.
C14_PrivateRoundTrip ==
    (2 \in Objs /\ hist[2]["private_key"] # NotCalled) =>
        hist[2]["private_key"] = given[1].private_key

C14_Witness ==
    /\ 2 \in Objs
    /\ given[2].private_key_pem = hist[1]["private_key_pem"]
    /\ given[2].private_key = None
    /\ last[2].op = "private_key"
    /\ hist[2]["private_key"] = given[1].private_key

\* a step is a public_key call on o made while _public_key is absent
PublicKeyDerivation(o) ==
    /\ last'[o] # last[o]
    /\ last'[o].op = "public_key"
    /\ self[o].public_key = None

\* what decoding _public_key from the PEM bytes pem gives
DecodedFromPem(pem) ==
    IF VerifyingKey_from_pem(pem).ok
    THEN VerifyingKey_to_string(VerifyingKey_from_pem(pem).key)
    ELSE DecodeFailure("VerifyingKey.from_pem")

\* C15: with public_key absent, the public_key accessor decodes from public_key_pem
\* whenever that is present, neither reading nor populating a private slot; only when
\* public_key_pem is absent does it derive public_key from the private scalar, filling
\* private_key from private_key_pem first if needed.
C15_PublicSourceOrder ==
    [][\A o \in Objs :
          PublicKeyDerivation(o) =>
              IF self[o].public_key_pem # None
              THEN /\ last'[o].res = DecodedFromPem(self[o].public_key_pem)
                   /\ self'[o].private_key = self[o].private_key
                   /\ self'[o].private_key_pem = self[o].private_key_pem
              ELSE IsValue(last'[o].res) =>
                       /\ self'[o].private_key = private_key(self[o]).res
                       /\ SigningKey_from_string(self'[o].private_key, CURVE).ok
                       /\ last'[o].res = VerifyingKey_to_string(verifying_key(
                              SigningKey_from_string(self'[o].private_key, CURVE).key))]_vars

\* C20: every accessor takes a field to be present when it is not None: with
\* public_key_pem = b"" the public_key_pem accessor returns it and the public_key
\* accessor decodes from it, not from private material; with private_key = b"" the
\* public_key accessor does not raise "No values given to derive public key".
C20_PresenceDecidedAlike ==
    [][\A o \in Objs :
          /\ (last'[o] # last[o] /\ last'[o].op = "public_key_pem"
                /\ self[o].public_key_pem = Empty) => last'[o].res = Empty
          /\ (PublicKeyDerivation(o) /\ self[o].public_key_pem = Empty) =>
                 /\ last'[o].res = DecodedFromPem(Empty)
                 /\ self'[o].private_key = self[o].private_key
          /\ (PublicKeyDerivation(o) /\ self[o].public_key_pem = None
                /\ self[o].private_key = Empty) => last'[o].res # NoValues]_vars

\* a step is a call of op on object o
Called(o, op) ==
    /\ last'[o].op = op
    /\ last'[o] # last[o] \/ self'[o] # self[o]

\* C16: once an accessor has returned a value, every later call of it returns the same
\* value and leaves all four slots unchanged.
C16_AccessorsIdempotent ==
    [][\A o \in Objs : \A op \in Accessors :
          (Called(o, op) /\ IsValue(hist[o][op])) =>
              (last'[o].res = hist[o][op] /\ self'[o] = self[o])]_vars

C16_Witness ==
    \E o \in Objs :
        /\ given[o].public_key = None
        /\ given[o].public_key_pem = None
        /\ last[o].op = "public_key"
        /\ last[o].again
        /\ last[o].res = hist[o]["public_key"]
        /\ hist[o]["public_key_pem"] # NotCalled

\* s with both public slots emptied
WithoutPublic(s) == [s EXCEPT !.public_key = None, !.public_key_pem = None]

\* C18: private_key and private_key_pem never read or change the public slots, each
\* populates at most its own slot, and each raises the missing-source-material error
\* if and only if both private slots are absent, whatever the public slots hold.
C18_PrivateAccessorsIgnorePublic ==
    [][\A o \in Objs : \A op \in {"private_key", "private_key_pem"} :
          Called(o, op) =>
              /\ \A f \in Accessors \ {op} : self'[o][f] = self[o][f]
              /\ last'[o].res = OutcomeOf(op, WithoutPublic(self[o]))
              /\ last'[o].res = MissingPrivate <=> PrivateAbsent(self[o])
              /\ (IsError(last'[o].res) /\ last'[o].res.kind = "MissingSourceMaterial")
                     <=> PrivateAbsent(self[o])]_vars

C18_Witness ==
    \E o \in Objs :
        /\ given[o].private_key = None
        /\ given[o].public_key # None
        /\ given[o].public_key_pem # None
        /\ last[o].op = "private_key"
        /\ self[o].private_key = last[o].res
        /\ IsValue(last[o].res)
        /\ hist[o]["private_key_pem"] = given[o].private_key_pem

\* C19: sign changes at most the private_key slot: a successful sign made with
\* private_key absent and private_key_pem present leaves private_key cached, and every
\* sign leaves private_key_pem, public_key and public_key_pem as they were.
C19_SignFrame ==
    [][\A o \in Objs :
          Called(o, "sign") =>
              /\ \A f \in Accessors \ {"private_key"} : self'[o][f] = self[o][f]
              /\ self[o].private_key # None => self'[o].private_key = self[o].private_key
              /\ (self[o].private_key = None /\ last'[o].res.t = "sig") =>
                     /\ self[o].private_key_pem # None
                     /\ self'[o].private_key = SigningKey_to_string(
                            SigningKey_from_pem(self[o].private_key_pem).key)]_vars

C19_Witness ==
    \E o \in Objs :
        /\ given[o].private_key = None
        /\ AllAbsent(WithoutPublic(given[o])) = FALSE
        /\ last[o].op = "sign"
        /\ last[o].res.t = "sig"
        /\ self[o].private_key # None
        /\ self[o].public_key = None
        /\ self[o].public_key_pem = None

(***************************************************************************)
(* Concurrent callers of one shared object (SpecThreads).                  *)
(***************************************************************************)
\* C11: each field is derived and written to its slot at most once over the lifetime
\* of the object, however many callers share it.
C11_DerivedAtMostOnce ==
    \A f \in Accessors : writes[f] <= 1

\* the slots a single caller reaches who reads the four fields one after another
Sequential(s) ==
    LET s1 == private_key(s).self
        s2 == private_key_pem(s1).self
        s3 == public_key(s2).self
    IN  public_key_pem(s3).self

\* C12: under every interleaving of accessor and sign calls by concurrent callers, a
\* call of an accessor ends with the outcome a single sequential caller gets from the
\* object as constructed, and every slot holds either what the constructor put there
\* or what a sequential run puts there: a duplicate derivation writes the same value.
C12_InterleavingsAgreeWithSequential ==
    /\ \A op \in Accessors :
          hist[1][op] # NotCalled => hist[1][op] = OutcomeOf(op, given[1])
    /\ \A f \in Accessors :
          self[1][f] \in {given[1][f], Sequential(given[1])[f]}

\* two callers have both derived and stored the same field, and a call of its accessor
\* has ended with a value
C12_Witness ==
    \E f \in Accessors :
        /\ writes[f] = 2
        /\ IsValue(hist[1][f])
        /\ self[1][f] # given[1][f]

(***************************************************************************)
(* One caller alone, step by step (SpecCall).                              *)
(***************************************************************************)
\* no accessor is on a stack twice, and no stack is deeper than the chain
\* public_key_pem -> public_key -> private_key
NoReentry ==
    \A t \in Threads :
        /\ Len(stack[t]) <= 3
        /\ \A i, j \in 1..Len(stack[t]) : stack[t][i].fn = stack[t][j].fn => i = j

====
